---- MODULE Spec2Model ----
(***************************************************************************)
(* Model of the ADC side of the hub: the per-connection handshake          *)
(* (ServeADC, adcStageProtocol, adcStageIdentity), the peer registry with  *)
(* its reservation sets, adcPeer.Close and the router (adcBroadcast,       *)
(* adcDirect).  One task per accepted connection, one administrative task  *)
(* that may call Close on registered peers, and one fan-out task per       *)
(* routed packet.                                                          *)
(***************************************************************************)
EXTENDS Integers, Sequences, FiniteSets, TLC

\* ------------------------------------------------------------------ bounds
NPeers == 2
MaxPackets == 1
MaxAdminCloses == 1

\* --------------------------------------------------------------- constants
CodeInvalidPID == 27
CodeInvalidNick == 21
CodeNickTaken == 22
CodeCIDTaken == 24
CodeSuccess == 0
NoPeer == 0

Peer == 1..NPeers
Admin == NPeers + 1
Router == NPeers + 2
Tasks == Peer \cup {Admin}
NoTask == NoPeer
SIDs == 1..NPeers
NoSID == NoPeer
Names == {"alice", "bob"}
EmptyNick == ""
CIDs == {"c1", "c2"}
PIDs == {"p1", "p2"}
NoUser == [Name |-> EmptyNick, Id |-> "none"]

\* tiger hash of a PID: the CID it proves
TigerHash(pid) == IF pid = "p1" THEN "c1" ELSE "c2"

VARIABLES
    pc,          \* position of every task
    sid,         \* peer.sid
    sidCounter,  \* state of the hub's SID allocator
    b,           \* originator SID of the INF packet read in the Identity stage
    u,           \* local u of adcStageIdentity
    user,        \* peer.user
    logging,     \* h.peers.logging
    loggingCID,  \* h.peers.loggingCID
    bySID,       \* h.peers.bySID
    byCID,       \* h.peers.byCID
    byName,      \* h.peers.byName
    hlock,       \* writer holding h.peers (RWMutex), or NoTask
    mu,          \* writer holding adcPeer.mu, or NoTask
    closed,      \* adcPeer.closed
    wire,        \* the writes made on every peer's connection, in order
    roster,      \* rest of the h.Peers() list streamed to the joining peer
    list,        \* list of adcStageIdentity (snapshot taken at admission)
    listTodo,    \* rest of list inside broadcastUserJoin
    notify,      \* rest of notify of Close, per closing task
    atarget,     \* peer the administrative task is closing
    adminCloses, \* Close calls made by the administrative task
    packets,     \* packets read by the serving loops
    fan,         \* running router tasks (go h.adcBroadcast / go h.adcDirect)
    claimed,     \* history: the Name and CID of the INF the connection sent
    admitOrder,  \* history: peers in the order of their admission
    reserved,    \* history: the peer has inserted into logging
    ioError,     \* history: a write of the running Identity stage failed
    removed,     \* history: Close has removed the peer from the indices
    routed       \* history: the packets the serving loops have routed

vars == <<pc, sid, sidCounter, b, u, user, logging, loggingCID, bySID, byCID,
          byName, hlock, mu, closed, wire, roster, list, listTodo, notify,
          atarget, adminCloses, packets, fan, claimed, admitOrder, reserved,
          ioError, removed, routed>>

regVars == <<logging, loggingCID, bySID, byCID, byName>>
histVars == <<claimed, admitOrder, reserved, ioError, removed, routed>>

\* ---------------------------------------------------------------- helpers
Msg(type, arg, by) == [type |-> type, arg |-> arg, by |-> by]

\* one write call on p's connection (wire records the calls in their order,
\* whether or not the transport then returns an error)
Write(w, p, m) == [w EXCEPT ![p] = Append(@, m)]

\* outcomes a write on p's connection can have: a closed connection rejects it
WriteOutcomes(p) == IF closed[p] THEN {FALSE} ELSE BOOLEAN

\* adcPeer.sendError: sendInfo(adc.Status{sev, code, msg}), result ignored
sendError(w, p, code) == Write(w, p, Msg("STA", code, p))

\* Hub.listPeers: the peers of the registry, caller holds the lock
listPeers(idx) == {idx[s] : s \in DOMAIN idx} \ {NoPeer}

\* Hub.Peers: the same list, taken under the shared lock
HubPeers == listPeers(bySID)

\* the locals of adcStageIdentity of connection p once the call has returned
Return(f, p, empty) == [f EXCEPT ![p] = empty]

\* Hub.nextSID: a SID not handed out before
nextSID == sidCounter + 1

Init ==
    /\ pc = [t \in Tasks |-> IF t = Admin THEN "idle" ELSE "accept"]
    /\ sid = [p \in Peer |-> NoSID]
    /\ sidCounter = 0
    /\ b = [p \in Peer |-> NoSID]
    /\ u = [p \in Peer |-> NoUser]
    /\ user = [p \in Peer |-> NoUser]
    /\ logging = {}
    /\ loggingCID = {}
    /\ bySID = [s \in SIDs |-> NoPeer]
    /\ byCID = [c \in CIDs |-> NoPeer]
    /\ byName = [n \in Names |-> NoPeer]
    /\ hlock = NoTask
    /\ mu = [p \in Peer |-> NoTask]
    /\ closed = [p \in Peer |-> FALSE]
    /\ wire = [p \in Peer |-> <<>>]
    /\ roster = [p \in Peer |-> {}]
    /\ list = [p \in Peer |-> {}]
    /\ listTodo = [p \in Peer |-> {}]
    /\ notify = [t \in Tasks |-> {}]
    /\ atarget = NoPeer
    /\ adminCloses = 0
    /\ packets = 0
    /\ fan = {}
    /\ claimed = [p \in Peer |-> NoUser]
    /\ admitOrder = <<>>
    /\ reserved = [p \in Peer |-> FALSE]
    /\ ioError = [p \in Peer |-> FALSE]
    /\ removed = [p \in Peer |-> FALSE]
    /\ routed = <<>>

\* ------------------------------------------------------- adcStageProtocol
\* Reads SUP, writes the hub's SUP, allocates the SID, writes it, flushes.
adcStageProtocol(p) ==
    /\ pc[p] = "accept"
    /\ \E fail \in {"read", "sup", "sid", "none"} :
         CASE fail = "read" ->
                \* lines 89-117: no SUP, or BASE/TIGR missing
                /\ pc' = [pc EXCEPT ![p] = "failed"]
                /\ UNCHANGED <<sid, sidCounter, wire>>
           [] fail = "sup" ->
                \* lines 120-125: the write of the hub's SUP fails
                /\ pc' = [pc EXCEPT ![p] = "failed"]
                /\ wire' = Write(wire, p, Msg("SUP", NoSID, p))
                /\ UNCHANGED <<sid, sidCounter>>
           [] fail = "sid" ->
                \* lines 127-137: the SID is allocated, its write fails
                /\ pc' = [pc EXCEPT ![p] = "failed"]
                /\ sidCounter' = nextSID
                /\ wire' = Write(Write(wire, p, Msg("SUP", NoSID, p)),
                                 p, Msg("SID", nextSID, p))
                /\ UNCHANGED sid
           [] fail = "none" ->
                /\ pc' = [pc EXCEPT ![p] = "identity"]
                /\ sidCounter' = nextSID
                /\ sid' = [sid EXCEPT ![p] = nextSID]
                /\ wire' = Write(Write(wire, p, Msg("SUP", NoSID, p)),
                                 p, Msg("SID", nextSID, p))
    /\ UNCHANGED <<b, u, user, regVars, hlock, mu, closed, roster, list,
                   listTodo, notify, atarget, adminCloses, packets, fan,
                   histVars>>

\* ------------------------------------------------------- adcStageIdentity
\* lines 152-176: read the INF, check the PID and the nick
IdentityRead(p) ==
    /\ pc[p] = "identity"
    /\ \/ \* read error, wrong packet kind, wrong command, unmarshal error
          /\ pc' = [pc EXCEPT ![p] = "failed"]
          /\ UNCHANGED <<b, u, wire, claimed>>
       \/ \E id \in SIDs, name \in Names \cup {EmptyNick}, cid \in CIDs,
             pid \in PIDs :
            IF cid # TigerHash(pid)
            THEN /\ wire' = sendError(wire, p, CodeInvalidPID)
                 /\ pc' = [pc EXCEPT ![p] = "failed"]
                 /\ UNCHANGED <<b, u, claimed>>
            ELSE IF name = EmptyNick
            THEN /\ wire' = sendError(wire, p, CodeInvalidNick)
                 /\ pc' = [pc EXCEPT ![p] = "failed"]
                 /\ UNCHANGED <<b, u, claimed>>
            ELSE /\ b' = [b EXCEPT ![p] = id]
                 /\ u' = [u EXCEPT ![p] = [Name |-> name, Id |-> cid]]
                 /\ claimed' = [claimed EXCEPT ![p] = u'[p]]
                 /\ pc' = [pc EXCEPT ![p] = "precheck"]
                 /\ UNCHANGED wire
    /\ UNCHANGED <<sid, sidCounter, user, regVars, hlock, mu, closed, roster,
                   list, listTodo, notify, atarget, adminCloses, packets, fan,
                   admitOrder, reserved, ioError, removed,
                   routed>>

\* sameName with the reservations of peers still logging in left out
sameNameIndexOnly(n) == byName[n] # NoPeer
\* sameCID with the reservations of peers still logging in left out
sameCIDIndexOnly(c) == byCID[c] # NoPeer

\* the two collision tests of lines 180-183 and 199-209
sameName(n) == n \in logging \/ byName[n] # NoPeer
sameCID(c) == c \in loggingCID \/ byCID[c] # NoPeer

\* lines 179-195: the check under the shared lock
PreCheck(p) ==
    /\ pc[p] = "precheck"
    /\ hlock = NoTask
    /\ IF sameName(u[p].Name)
       THEN /\ wire' = sendError(wire, p, CodeNickTaken)
            /\ pc' = [pc EXCEPT ![p] = "failed"]
            /\ b' = Return(b, p, NoSID)
            /\ u' = Return(u, p, NoUser)
       ELSE IF sameCID(u[p].Id)
       THEN /\ wire' = sendError(wire, p, CodeCIDTaken)
            /\ pc' = [pc EXCEPT ![p] = "failed"]
            /\ b' = Return(b, p, NoSID)
            /\ u' = Return(u, p, NoUser)
       ELSE /\ pc' = [pc EXCEPT ![p] = "commit"]
            /\ UNCHANGED <<wire, b, u>>
    /\ UNCHANGED <<sid, sidCounter, user, regVars, hlock, mu, closed,
                   roster, list, listTodo, notify, atarget, adminCloses,
                   packets, fan, histVars>>

\* Collides with the re-check under the exclusive lock left out
CollidesNever(p) == CodeSuccess

\* the test that guards the reservation (lines 201 and 210)
Collides(p) ==
    IF sameName(u[p].Name) THEN CodeNickTaken
    ELSE IF sameCID(u[p].Id) THEN CodeCIDTaken
    ELSE CodeSuccess

\* CommitName with the nick bound before the CID is tested
CommitNameBindsFirst(p) ==
    /\ pc[p] = "commit"
    /\ hlock = NoTask
    /\ IF Collides(p) # CodeSuccess
       THEN /\ wire' = sendError(wire, p, Collides(p))
            /\ pc' = [pc EXCEPT ![p] = "failed"]
            /\ b' = Return(b, p, NoSID)
            /\ u' = Return(u, p, NoUser)
            /\ logging' = IF Collides(p) = CodeCIDTaken
                          THEN logging \cup {u[p].Name} ELSE logging
            /\ UNCHANGED <<hlock, reserved>>
       ELSE /\ hlock' = p
            /\ logging' = logging \cup {u[p].Name}
            /\ reserved' = [reserved EXCEPT ![p] = TRUE]
            /\ pc' = [pc EXCEPT ![p] = "bindcid"]
            /\ UNCHANGED <<wire, b, u>>
    /\ UNCHANGED <<sid, sidCounter, user, loggingCID, bySID, byCID,
                   byName, mu, closed, roster, list, listTodo, notify,
                   atarget, adminCloses, packets, fan, claimed, admitOrder,
                   ioError, removed, routed>>

\* lines 198-218: lock, re-check under the exclusive lock, bind the nick
CommitName(p) ==
    /\ pc[p] = "commit"
    /\ hlock = NoTask
    /\ IF Collides(p) # CodeSuccess
       THEN /\ wire' = sendError(wire, p, Collides(p))
            /\ pc' = [pc EXCEPT ![p] = "failed"]
            /\ b' = Return(b, p, NoSID)
            /\ u' = Return(u, p, NoUser)
            /\ UNCHANGED <<hlock, logging, reserved>>
       ELSE /\ hlock' = p
            /\ logging' = logging \cup {u[p].Name}
            /\ reserved' = [reserved EXCEPT ![p] = TRUE]
            /\ pc' = [pc EXCEPT ![p] = "bindcid"]
            /\ UNCHANGED <<wire, b, u>>
    /\ UNCHANGED <<sid, sidCounter, user, loggingCID, bySID, byCID,
                   byName, mu, closed, roster, list, listTodo, notify,
                   atarget, adminCloses, packets, fan, claimed, admitOrder,
                   ioError, removed,
                   routed>>

\* CommitCID with the peer put into bySID at once instead of at admission
CommitCIDInsertEarly(p) ==
    /\ pc[p] = "bindcid"
    /\ hlock = p
    /\ loggingCID' = loggingCID \cup {u[p].Id}
    /\ bySID' = [bySID EXCEPT ![sid[p]] = p]
    /\ hlock' = NoTask
    /\ pc' = [pc EXCEPT ![p] = "hubinfo"]
    /\ UNCHANGED <<sid, sidCounter, b, u, user, logging, byCID, byName,
                   mu, closed, wire, roster, list, listTodo, notify, atarget,
                   adminCloses, packets, fan, histVars>>

\* lines 219-220: bind the CID, unlock
CommitCID(p) ==
    /\ pc[p] = "bindcid"
    /\ hlock = p
    /\ loggingCID' = loggingCID \cup {u[p].Id}
    /\ hlock' = NoTask
    /\ pc' = [pc EXCEPT ![p] = "hubinfo"]
    /\ UNCHANGED <<sid, sidCounter, b, u, user, logging, bySID, byCID, byName,
                   mu, closed, wire, roster, list, listTodo, notify, atarget,
                   adminCloses, packets, fan, histVars>>

\* lines 222-227, first half: unbind locks and releases the nick
UnbindName(p) ==
    /\ pc[p] = "unbind"
    /\ hlock = NoTask
    /\ hlock' = p
    /\ logging' = logging \ {u[p].Name}
    /\ pc' = [pc EXCEPT ![p] = "unbindcid"]
    /\ UNCHANGED <<sid, sidCounter, b, u, user, loggingCID, bySID, byCID,
                   byName, mu, closed, wire, roster, list, listTodo, notify,
                   atarget, adminCloses, packets, fan, histVars>>

\* lines 225-226 and the return err that follows every unbind()
UnbindCID(p) ==
    /\ pc[p] = "unbindcid"
    /\ hlock = p
    /\ loggingCID' = loggingCID \ {u[p].Id}
    /\ hlock' = NoTask
    /\ pc' = [pc EXCEPT ![p] = "failed"]
    /\ b' = Return(b, p, NoSID)
    /\ u' = Return(u, p, NoUser)
    /\ UNCHANGED <<sid, sidCounter, user, logging, bySID, byCID, byName,
                   mu, closed, wire, roster, list, listTodo, notify, atarget,
                   adminCloses, packets, fan, histVars>>

\* AfterWrite with the unbind() before the return forgotten
AfterWriteNoUnbind(ok, next) == IF ok THEN next ELSE "failed"

\* where the handshake goes after a write whose error is checked
AfterWrite(ok, next) == IF ok THEN next ELSE "unbind"

\* where it goes after the write of the success status (lines 246-253)
AfterStatus(ok) == "peers"

\* lines 229-244: cache the user record, send the hub info
WriteHubInfo(p) ==
    /\ pc[p] = "hubinfo"
    /\ user' = [user EXCEPT ![p] = u[p]]
    /\ \E ok \in WriteOutcomes(p) :
         /\ wire' = Write(wire, p, Msg("HubInfo", NoSID, p))
         /\ pc' = [pc EXCEPT ![p] = AfterWrite(ok, "status")]
         /\ ioError' = [ioError EXCEPT ![p] = @ \/ ~ok]
    /\ UNCHANGED <<sid, sidCounter, b, u, regVars, hlock, mu, closed, roster,
                   list, listTodo, notify, atarget, adminCloses, packets, fan,
                   claimed,
                   admitOrder, reserved, removed,
                   routed>>

\* lines 246-250: send the success status; err is overwritten at line 253
WriteStatus(p) ==
    /\ pc[p] = "status"
    /\ \E ok \in WriteOutcomes(p) :
         /\ wire' = Write(wire, p, Msg("STA", CodeSuccess, p))
         /\ pc' = [pc EXCEPT ![p] = AfterStatus(ok)]
         /\ ioError' = [ioError EXCEPT ![p] = @ \/ ~ok]
    /\ UNCHANGED <<sid, sidCounter, b, u, user, regVars, hlock, mu, closed,
                   roster, list, listTodo, notify, atarget, adminCloses,
                   packets, fan, claimed,
                   admitOrder, reserved, removed,
                   routed>>

\* line 253: the argument h.Peers() of the first PeersJoin
RosterSnapshot(p) ==
    /\ pc[p] = "peers"
    /\ hlock = NoTask
    /\ roster' = [roster EXCEPT ![p] = HubPeers]
    /\ pc' = [pc EXCEPT ![p] = "roster"]
    /\ UNCHANGED <<sid, sidCounter, b, u, user, regVars, hlock, mu, closed,
                   wire, list, listTodo, notify, atarget, adminCloses, packets,
                   fan, histVars>>

\* adcPeer.PeersJoin, one turn of the loop: Info() of the listed peer under
\* its lock, then WriteBroadcast on the joining peer's connection
RosterWrite(p) ==
    /\ pc[p] = "roster"
    /\ \E q \in roster[p], ok \in WriteOutcomes(p) :
         /\ mu[q] = NoTask
         /\ wire' = Write(wire, p, Msg("INF", sid[q], p))
         /\ roster' = [roster EXCEPT ![p] = IF ok THEN @ \ {q} ELSE {}]
         /\ pc' = [pc EXCEPT ![p] = AfterWrite(ok, "roster")]
         /\ ioError' = [ioError EXCEPT ![p] = @ \/ ~ok]
    /\ UNCHANGED <<sid, sidCounter, b, u, user, regVars, hlock, mu, closed,
                   list, listTodo, notify, atarget, adminCloses, packets, fan,
                   claimed,
                   admitOrder, reserved, removed,
                   routed>>

\* adcPeer.PeersJoin, the Flush that ends it (line 418), checked at line 254
RosterFlush(p) ==
    /\ pc[p] = "roster"
    /\ roster[p] = {}
    /\ \E ok \in WriteOutcomes(p) :
         /\ pc' = [pc EXCEPT ![p] = AfterWrite(ok, "owninf")]
         /\ ioError' = [ioError EXCEPT ![p] = @ \/ ~ok]
    /\ UNCHANGED <<sid, sidCounter, b, u, user, regVars, hlock, mu, closed,
                   wire, roster, list, listTodo, notify, atarget, adminCloses,
                   packets, fan, claimed,
                   admitOrder, reserved, removed,
                   routed>>

\* lines 259-264: PeersJoin([]Peer{peer}), the peer's own INF and the flush
WriteOwnInfo(p) ==
    /\ pc[p] = "owninf"
    /\ mu[p] = NoTask
    /\ \E ok \in WriteOutcomes(p) :
         /\ wire' = Write(wire, p, Msg("INF", sid[p], p))
         /\ pc' = [pc EXCEPT ![p] = AfterWrite(ok, "admit")]
         /\ ioError' = [ioError EXCEPT ![p] = @ \/ ~ok]
    /\ UNCHANGED <<sid, sidCounter, b, u, user, regVars, hlock, mu, closed,
                   roster, list, listTodo, notify, atarget, adminCloses,
                   packets, fan, claimed,
                   admitOrder, reserved, removed,
                   routed>>

\* DropReservation with the delete from loggingCID forgotten
DropReservationNameOnly(p) ==
    /\ logging' = logging \ {user[p].Name}
    /\ loggingCID' = loggingCID

\* lines 268-270: cleanup temporary bindings
DropReservation(p) ==
    /\ logging' = logging \ {user[p].Name}
    /\ loggingCID' = loggingCID \ {u[p].Id}

\* lines 275-278: add user to the hub
InsertPeer(p) ==
    /\ bySID' = [bySID EXCEPT ![sid[p]] = p]
    /\ byCID' = [byCID EXCEPT ![u[p].Id] = p]
    /\ byName' = [byName EXCEPT ![u[p].Name] = p]

\* AdmitLock with the list taken after the peer is inserted
AdmitLockListAfterInsert(p) ==
    /\ pc[p] = "admit"
    /\ hlock = NoTask
    /\ hlock' = p
    /\ DropReservation(p)
    /\ list' = [list EXCEPT ![p] = listPeers(bySID) \cup {p}]
    /\ listTodo' = [listTodo EXCEPT ![p] = listPeers(bySID) \cup {p}]
    /\ pc' = [pc EXCEPT ![p] = "insert"]
    /\ UNCHANGED <<sid, sidCounter, b, u, user, bySID, byCID, byName, mu,
                   closed, wire, roster, notify, atarget, adminCloses, packets,
                   fan, histVars>>

\* AdmitLock with the peer's own lock taken under the registry lock
AdmitLockTakesPeerLock(p) ==
    /\ pc[p] = "admit"
    /\ hlock = NoTask
    /\ mu[p] = NoTask
    /\ hlock' = p
    /\ mu' = [mu EXCEPT ![p] = p]
    /\ DropReservation(p)
    /\ list' = [list EXCEPT ![p] = listPeers(bySID)]
    /\ listTodo' = [listTodo EXCEPT ![p] = listPeers(bySID)]
    /\ pc' = [pc EXCEPT ![p] = "insert"]
    /\ UNCHANGED <<sid, sidCounter, b, u, user, bySID, byCID, byName,
                   closed, wire, roster, notify, atarget, adminCloses, packets,
                   fan, histVars>>

\* lines 267-273: lock, drop the reservations, snapshot the peers
AdmitLock(p) ==
    /\ pc[p] = "admit"
    /\ hlock = NoTask
    /\ hlock' = p
    /\ DropReservation(p)
    /\ list' = [list EXCEPT ![p] = listPeers(bySID)]
    /\ listTodo' = [listTodo EXCEPT ![p] = listPeers(bySID)]
    /\ pc' = [pc EXCEPT ![p] = "insert"]
    /\ UNCHANGED <<sid, sidCounter, b, u, user, bySID, byCID, byName, mu,
                   closed, wire, roster, notify, atarget, adminCloses, packets,
                   fan, histVars>>

\* AdmitInsert with the locks of the listed peers taken under the registry
\* lock, the order opposite to the one of Close
AdmitInsertLocksPeers(p) ==
    /\ pc[p] = "insert"
    /\ hlock = p
    /\ \A q \in list[p] : mu[q] = NoTask
    /\ InsertPeer(p)
    /\ hlock' = NoTask
    /\ admitOrder' = Append(admitOrder, p)
    /\ pc' = [pc EXCEPT ![p] = "join"]
    /\ UNCHANGED <<sid, sidCounter, b, u, user, logging, loggingCID, mu,
                   closed, wire, roster, list, listTodo, notify, atarget,
                   adminCloses, packets, fan, claimed, reserved, ioError,
                   removed, routed>>

\* lines 276-279: insert into the three indices, unlock
AdmitInsert(p) ==
    /\ pc[p] = "insert"
    /\ hlock = p
    /\ InsertPeer(p)
    /\ hlock' = NoTask
    /\ admitOrder' = Append(admitOrder, p)
    /\ pc' = [pc EXCEPT ![p] = "join"]
    /\ UNCHANGED <<sid, sidCounter, b, u, user, logging, loggingCID, mu,
                   closed, wire, roster, list, listTodo, notify, atarget,
                   adminCloses, packets, fan, claimed, reserved, ioError,
                   removed,
                   routed>>

\* Hub.broadcastUserJoin (line 283), one recipient: q.PeersJoin([]Peer{peer})
\* reads peer.Info() under the joining peer's lock and writes to q
broadcastUserJoin(p) ==
    /\ pc[p] = "join"
    /\ mu[p] = NoTask
    /\ \E q \in listTodo[p] :
         /\ wire' = Write(wire, q, Msg("INF", sid[p], p))
         /\ listTodo' = [listTodo EXCEPT ![p] = @ \ {q}]
    /\ UNCHANGED <<pc, sid, sidCounter, b, u, user, regVars, hlock, mu,
                   closed, roster, list, notify, atarget, adminCloses, packets,
                   fan, histVars>>

\* ServeADC lines 33-41: Identity returned nil; defer peer.Close(); sendMOTD
sendMOTD(p) ==
    /\ pc[p] = "join"
    /\ listTodo[p] = {}
    /\ \E ok \in WriteOutcomes(p) :
         /\ wire' = Write(wire, p, Msg("MOTD", NoSID, p))
         /\ pc' = [pc EXCEPT ![p] = IF ok THEN "serve" ELSE "close"]
    /\ b' = Return(b, p, NoSID)
    /\ u' = Return(u, p, NoUser)
    /\ list' = Return(list, p, {})
    /\ ioError' = Return(ioError, p, FALSE)
    /\ UNCHANGED <<sid, sidCounter, user, regVars, hlock, mu, closed,
                   roster, listTodo, notify, atarget, adminCloses,
                   packets, fan, claimed, admitOrder, reserved, removed,
                   routed>>

\* ----------------------------------------------------------- adcServePeer
\* lines 48-53: io.EOF or a read error ends the loop, the deferred Close runs
ServeEnd(p) ==
    /\ pc[p] = "serve"
    /\ pc' = [pc EXCEPT ![p] = "close"]
    /\ UNCHANGED <<sid, sidCounter, b, u, user, regVars, hlock, mu, closed,
                   wire, roster, list, listTodo, notify, atarget, adminCloses,
                   packets, fan, histVars>>

\* where the serving loop goes after the write-back of an Echo packet and its
\* flush (lines 67-72)
AfterEcho(ok) == IF ok THEN "serve" ELSE "close"

\* EchoForward with the packet forwarded whatever the write-back returned
EchoForwardAlways(ok, f) == {f}

\* the router tasks an Echo packet starts: go h.adcDirect (line 74) is
\* reached only if WritePacket and Flush returned nil (lines 67-72)
EchoForward(ok, f) == IF ok THEN {f} ELSE {}

\* the record of a packet the serving loop of p has handed to the router
Routed(p, kind, targ, snap, ok) ==
    [kind |-> kind, from |-> p, targ |-> targ, snap |-> snap, ok |-> ok]

\* the results h.Peers() can have as the argument of line 62: an empty list
\* may or may not be the nil slice that adcBroadcast replaces (line 288)
NilOutcomes == IF HubPeers = {} THEN BOOLEAN ELSE {FALSE}

\* one turn of the serving loop with a packet read (lines 54-82)
adcServePeer(p) ==
    /\ pc[p] = "serve"
    /\    /\ packets < MaxPackets
          /\ packets' = packets + 1
          /\ \E kind \in {"B", "E", "D"}, id \in SIDs, targ \in SIDs :
               IF id # sid[p]
               THEN \* malformed packet
                    /\ pc' = [pc EXCEPT ![p] = "close"]
                    /\ UNCHANGED <<wire, fan, routed>>
               ELSE CASE kind = "B" ->
                         \* go h.adcBroadcast(p, peer, h.Peers())
                         /\ hlock = NoTask
                         /\ \E nil \in NilOutcomes :
                              fan' = fan \cup {[kind |-> "B", pkt |-> packets',
                                                from |-> id, targ |-> NoSID,
                                                peers |-> HubPeers,
                                                isNil |-> nil]}
                         /\ routed' = Append(routed,
                                Routed(p, "B", NoSID, HubPeers, TRUE))
                         /\ UNCHANGED <<pc, wire>>
                      [] kind = "E" ->
                         \* write back and flush, then go h.adcDirect
                         \E ok \in WriteOutcomes(p) :
                           /\ wire' = Write(wire, p,
                                            Msg("E", packets', p))
                           /\ pc' = [pc EXCEPT ![p] = AfterEcho(ok)]
                           /\ fan' = fan \cup EchoForward(ok,
                                          [kind |-> "D", pkt |-> packets',
                                           from |-> id, targ |-> targ,
                                           peers |-> {}, isNil |-> FALSE])
                           /\ routed' = Append(routed,
                                  Routed(p, "E", targ, {}, ok))
                      [] kind = "D" ->
                         /\ fan' = fan \cup {[kind |-> "D", pkt |-> packets',
                                               from |-> id, targ |-> targ,
                                               peers |-> {}, isNil |-> FALSE]}
                         /\ routed' = Append(routed,
                                Routed(p, "D", targ, {}, TRUE))
                         /\ UNCHANGED <<pc, wire>>
    /\ UNCHANGED <<sid, sidCounter, b, u, user, regVars, hlock, mu, closed,
                   roster, list, listTodo, notify, atarget, adminCloses,
                   claimed, admitOrder, reserved, ioError, removed>>

\* ----------------------------------------------------------------- router
\* adcBroadcast with the loop left at the first write that fails
adcBroadcastAbortOnError(f) ==
    /\ f.kind = "B"
    /\ IF f.isNil
       THEN /\ hlock = NoTask
            /\ fan' = (fan \ {f}) \cup
                        {[f EXCEPT !.peers = HubPeers, !.isNil = FALSE]}
            /\ UNCHANGED wire
       ELSE IF f.peers = {}
       THEN /\ fan' = fan \ {f}
            /\ UNCHANGED wire
       ELSE \E q \in f.peers : \E ok \in WriteOutcomes(q) :
              /\ wire' = Write(wire, q, Msg("B", f.pkt, Router))
              /\ fan' = (fan \ {f}) \cup
                          (IF ok THEN {[f EXCEPT !.peers = @ \ {q}]} ELSE {})
    /\ UNCHANGED <<pc, sid, sidCounter, b, u, user, regVars, hlock, mu,
                   closed, roster, list, listTodo, notify, atarget,
                   adminCloses, packets, histVars>>

\* Hub.adcBroadcast: the nil list replaced by h.Peers() (lines 288-290), one
\* turn of the loop of lines 292-299, or the return once the list is done
adcBroadcast(f) ==
    /\ f.kind = "B"
    /\ IF f.isNil
       THEN /\ hlock = NoTask
            /\ fan' = (fan \ {f}) \cup
                        {[f EXCEPT !.peers = HubPeers, !.isNil = FALSE]}
            /\ UNCHANGED wire
       ELSE IF f.peers = {}
       THEN /\ fan' = fan \ {f}
            /\ UNCHANGED wire
       ELSE \E q \in f.peers :
              /\ wire' = Write(wire, q, Msg("B", f.pkt, Router))
              /\ fan' = (fan \ {f}) \cup {[f EXCEPT !.peers = @ \ {q}]}
    /\ UNCHANGED <<pc, sid, sidCounter, b, u, user, regVars, hlock, mu,
                   closed, roster, list, listTodo, notify, atarget,
                   adminCloses, packets, histVars>>

\* adcDirect with a copy written to the originator as well
adcDirectCopyToSender(f) ==
    /\ f.kind = "D"
    /\ hlock = NoTask
    /\ wire' = IF bySID[f.targ] = NoPeer THEN wire
               ELSE Write(Write(wire, bySID[f.targ],
                                Msg(f.kind, f.pkt, Router)),
                          f.from, Msg(f.kind, f.pkt, Router))
    /\ fan' = fan \ {f}
    /\ UNCHANGED <<pc, sid, sidCounter, b, u, user, regVars, hlock, mu,
                   closed, roster, list, listTodo, notify, atarget,
                   adminCloses, packets, histVars>>

\* Hub.adcDirect (lines 315-326)
adcDirect(f) ==
    /\ f.kind = "D"
    /\ hlock = NoTask
    /\ wire' = IF bySID[f.targ] = NoPeer THEN wire
               ELSE Write(wire, bySID[f.targ], Msg(f.kind, f.pkt, Router))
    /\ fan' = fan \ {f}
    /\ UNCHANGED <<pc, sid, sidCounter, b, u, user, regVars, hlock, mu,
                   closed, roster, list, listTodo, notify, atarget,
                   adminCloses, packets, histVars>>

\* ------------------------------------------------------------ adcPeer.Close
\* the peer a task closes: its own, or the administrative task's target
Closee(t) == IF t = Admin THEN atarget ELSE t
\* where a task is after Close has returned
Returned(t) == IF t = Admin THEN "idle" ELSE "done"

\* CloseBegin with the test of p.closed left out
CloseBeginNoTest(t) ==
    /\ pc[t] = "close"
    /\ mu[Closee(t)] = NoTask
    /\ mu' = [mu EXCEPT ![Closee(t)] = t]
    /\ closed' = [closed EXCEPT ![Closee(t)] = TRUE]
    /\ pc' = [pc EXCEPT ![t] = "closename"]
    /\ UNCHANGED <<sid, sidCounter, b, u, user, regVars, hlock, wire, roster,
                   list, listTodo, notify, atarget, adminCloses, packets, fan,
                   histVars>>

\* lines 378-384: lock the peer, return if closed, close the connection
CloseBegin(t) ==
    /\ pc[t] = "close"
    /\ mu[Closee(t)] = NoTask
    /\ IF closed[Closee(t)]
       THEN /\ pc' = [pc EXCEPT ![t] = Returned(t)]
            /\ UNCHANGED <<mu, closed>>
       ELSE /\ mu' = [mu EXCEPT ![Closee(t)] = t]
            /\ closed' = [closed EXCEPT ![Closee(t)] = TRUE]
            /\ pc' = [pc EXCEPT ![t] = "closename"]
    /\ UNCHANGED <<sid, sidCounter, b, u, user, regVars, hlock, wire, roster,
                   list, listTodo, notify, atarget, adminCloses, packets, fan,
                   histVars>>

\* lines 386-388: lock the registry, delete the name
CloseName(t) ==
    /\ pc[t] = "closename"
    /\ hlock = NoTask
    /\ hlock' = t
    /\ byName' = [byName EXCEPT ![user[Closee(t)].Name] = NoPeer]
    /\ pc' = [pc EXCEPT ![t] = "closerest"]
    /\ UNCHANGED <<sid, sidCounter, b, u, user, logging, loggingCID, bySID,
                   byCID, mu, closed, wire, roster, list, listTodo, notify,
                   atarget, adminCloses, packets, fan, histVars>>

\* RemovePeer with the delete from byCID forgotten
RemovePeerKeepCID(q) ==
    /\ bySID' = [bySID EXCEPT ![sid[q]] = NoPeer]
    /\ byCID' = byCID

\* lines 389-390: delete the SID and the CID of the closed peer
RemovePeer(q) ==
    /\ bySID' = [bySID EXCEPT ![sid[q]] = NoPeer]
    /\ byCID' = [byCID EXCEPT ![user[q].Id] = NoPeer]

\* CloseRest with the list for the leave broadcast taken before the deletes
CloseRestListFirst(t) ==
    /\ pc[t] = "closerest"
    /\ hlock = t
    /\ RemovePeer(Closee(t))
    /\ notify' = [notify EXCEPT ![t] = listPeers(bySID)]
    /\ hlock' = NoTask
    /\ removed' = [removed EXCEPT ![Closee(t)] = TRUE]
    /\ pc' = [pc EXCEPT ![t] = "leave"]
    /\ UNCHANGED <<sid, sidCounter, b, u, user, logging, loggingCID, byName,
                   mu, closed, wire, roster, list, listTodo, atarget,
                   adminCloses, packets, fan, claimed, admitOrder,
                   reserved, ioError, routed>>

\* lines 389-392: delete the SID and the CID, snapshot, unlock
CloseRest(t) ==
    /\ pc[t] = "closerest"
    /\ hlock = t
    /\ RemovePeer(Closee(t))
    /\ notify' = [notify EXCEPT ![t] = listPeers(bySID')]
    /\ hlock' = NoTask
    /\ removed' = [removed EXCEPT ![Closee(t)] = TRUE]
    /\ pc' = [pc EXCEPT ![t] = "leave"]
    /\ UNCHANGED <<sid, sidCounter, b, u, user, logging, loggingCID, byName,
                   mu, closed, wire, roster, list, listTodo, atarget,
                   adminCloses, packets, fan, claimed, admitOrder,
                   reserved, ioError, routed>>

\* Hub.broadcastUserLeave (line 394), one recipient: q.PeersLeave([]Peer{p})
broadcastUserLeave(t) ==
    /\ pc[t] = "leave"
    /\ \E q \in notify[t] :
         /\ wire' = Write(wire, q, Msg("QUI", sid[Closee(t)], t))
         /\ notify' = [notify EXCEPT ![t] = @ \ {q}]
    /\ UNCHANGED <<pc, sid, sidCounter, b, u, user, regVars, hlock, mu,
                   closed, roster, list, listTodo, atarget, adminCloses,
                   packets, fan, histVars>>

\* lines 395 and 379: return, the deferred p.mu.Unlock()
CloseEnd(t) ==
    /\ pc[t] = "leave"
    /\ notify[t] = {}
    /\ mu' = [mu EXCEPT ![Closee(t)] = NoTask]
    /\ pc' = [pc EXCEPT ![t] = Returned(t)]
    /\ UNCHANGED <<sid, sidCounter, b, u, user, regVars, hlock, closed, wire,
                   roster, list, listTodo, notify, atarget, adminCloses,
                   packets, fan, histVars>>

\* the administrative path: Close on a peer found in the registry
AdminClose ==
    /\ pc[Admin] = "idle"
    /\ adminCloses < MaxAdminCloses
    /\ hlock = NoTask
    /\ \E q \in HubPeers :
         /\ atarget' = q
         /\ pc' = [pc EXCEPT ![Admin] = "close"]
    /\ adminCloses' = adminCloses + 1
    /\ UNCHANGED <<sid, sidCounter, b, u, user, regVars, hlock, mu, closed,
                   wire, roster, list, listTodo, notify, packets, fan,
                   histVars>>

\* ------------------------------------------------------------ specification
Handshake(p) ==
    \/ adcStageProtocol(p)
    \/ IdentityRead(p)
    \/ PreCheck(p)
    \/ CommitName(p)
    \/ CommitCID(p)
    \/ UnbindName(p)
    \/ UnbindCID(p)
    \/ WriteHubInfo(p)
    \/ WriteStatus(p)
    \/ RosterSnapshot(p)
    \/ RosterWrite(p)
    \/ RosterFlush(p)
    \/ WriteOwnInfo(p)
    \/ AdmitLock(p)
    \/ AdmitInsert(p)
    \/ broadcastUserJoin(p)
    \/ sendMOTD(p)

Close(t) ==
    \/ CloseBegin(t)
    \/ CloseName(t)
    \/ CloseRest(t)
    \/ broadcastUserLeave(t)
    \/ CloseEnd(t)

\* joining and leaving: everything that reads or writes the registry's state
NextRegistry ==
    \/ \E p \in Peer : Handshake(p)
    \/ \E p \in Peer : ServeEnd(p)
    \/ \E t \in Tasks : Close(t)
    \/ AdminClose

\* the router: it writes to connections only
NextRouter ==
    \/ \E p \in Peer : adcServePeer(p)
    \/ \E f \in fan : adcBroadcast(f)
    \/ \E f \in fan : adcDirect(f)

Next == NextRegistry \/ NextRouter

Spec == Init /\ [][Next]_vars

\* the hub while no client sends a packet to route
SpecRegistry == Init /\ [][NextRegistry]_vars

\* ------------------------------------------------------------- positions
\* the nick and the CID a connection has claimed
NameOf(p) == claimed[p].Name
CIDOf(p) == claimed[p].Id

\* p is between its insert into logging (line 218) and the delete that
\* releases it (line 224 or 269)
ReservedName(p) ==
    pc[p] \in {"bindcid", "hubinfo", "status", "peers", "roster", "owninf",
               "admit", "unbind"}
\* p is between its insert into loggingCID (line 219) and the delete that
\* releases it (line 225 or 270)
ReservedCID(p) ==
    pc[p] \in {"hubinfo", "status", "peers", "roster", "owninf", "admit",
               "unbind", "unbindcid"}

\* p has passed the inserts of lines 276-278
Admitted(p) == \E i \in DOMAIN admitOrder : admitOrder[i] = p
\* a Close of p has passed the delete of line 388
NameDeleted(p) ==
    removed[p] \/ \E t \in Tasks : Closee(t) = p /\ pc[t] = "closerest"

HoldsName(p) == ReservedName(p) \/ (Admitted(p) /\ ~NameDeleted(p))
HoldsCID(p) == ReservedCID(p) \/ (Admitted(p) /\ ~removed[p])

\* the peers some index has an entry for
Indexed == listPeers(bySID) \cup listPeers(byCID) \cup listPeers(byName)

\* ------------------------------------------------------------------ claims
\* C1: no two distinct peers that are reserved or admitted hold the same
\* Name at the same time, whatever the interleaving of handshakes and Closes.
UniqueNames ==
    \A p, q \in Peer :
        (p # q /\ HoldsName(p) /\ HoldsName(q)) => NameOf(p) # NameOf(q)

\* a second connection is refused the nick while the first is still logging in
\* or admitted
UniqueNamesWitness ==
    \E p, q \in Peer :
        /\ p # q
        /\ HoldsName(p)
        /\ pc[q] = "failed"
        /\ Len(wire[q]) > 0
        /\ wire[q][Len(wire[q])] = Msg("STA", CodeNickTaken, q)

\* C2: no two distinct peers that are reserved or admitted hold the same
\* CID at the same time, whatever the interleaving of handshakes and Closes.
UniqueCIDs ==
    \A p, q \in Peer :
        (p # q /\ HoldsCID(p) /\ HoldsCID(q)) => CIDOf(p) # CIDOf(q)

UniqueCIDsWitness ==
    \E p, q \in Peer :
        /\ p # q
        /\ HoldsCID(p)
        /\ pc[q] = "failed"
        /\ Len(wire[q]) > 0
        /\ wire[q][Len(wire[q])] = Msg("STA", CodeCIDTaken, q)

\* C3: whenever the registry's exclusive lock is free, every peer found in
\* one of bySID, byCID, byName is found in all three under its own SID, CID
\* and Name, and is a peer that was admitted and that no Close has removed.
IndexConsistency ==
    hlock = NoTask =>
        \A p \in Indexed :
            /\ bySID[sid[p]] = p
            /\ byCID[user[p].Id] = p
            /\ byName[user[p].Name] = p
            /\ Admitted(p)
            /\ ~removed[p]

\* one peer is indexed while another has been admitted and removed again
IndexConsistencyWitness ==
    /\ hlock = NoTask
    /\ \E p, q \in Peer :
          /\ p # q
          /\ p \in Indexed
          /\ Admitted(q)
          /\ removed[q]

\* p is reserved and nothing more: in both reservation sets, in no index
OnlyReserved(p) ==
    /\ NameOf(p) \in logging
    /\ CIDOf(p) \in loggingCID
    /\ p \notin Indexed
\* p is admitted in full: in the three indices, in no reservation set
OnlyIndexed(p) ==
    /\ bySID[sid[p]] = p
    /\ byCID[CIDOf(p)] = p
    /\ byName[NameOf(p)] = p
    /\ NameOf(p) \notin logging
    /\ CIDOf(p) \notin loggingCID
\* p has committed its reservation and has neither failed nor been removed
Committed(p) == reserved[p] /\ pc[p] # "failed" /\ ~removed[p]

\* C4: whenever the registry's exclusive lock is free, a peer that has
\* committed its reservation and has not failed or closed is either in both
\* reservation sets and in no index, or in all three indices and in no
\* reservation set; no Name is in logging and byName at once, no CID in
\* loggingCID and byCID at once.
AdmissionAtomic ==
    /\ \A n \in Names : ~(n \in logging /\ byName[n] # NoPeer)
    /\ \A c \in CIDs : ~(c \in loggingCID /\ byCID[c] # NoPeer)
    /\ hlock = NoTask =>
          \A p \in Peer : Committed(p) => (OnlyReserved(p) \/ OnlyIndexed(p))

\* an observer sees one peer reserved and another admitted
AdmissionAtomicWitness ==
    /\ hlock = NoTask
    /\ \E p, q \in Peer :
          /\ Committed(p) /\ OnlyReserved(p)
          /\ Committed(q) /\ OnlyIndexed(q)

\* C5: a step in which adcStageIdentity returns an error after the peer had
\* inserted into logging and loggingCID leaves neither reservation of that
\* peer behind, and the peer in none of the three indices.
ReservationRelease ==
    [][\A p \in Peer :
          (reserved[p] /\ pc[p] # "failed" /\ pc'[p] = "failed") =>
              /\ NameOf(p) \notin logging'
              /\ CIDOf(p) \notin loggingCID'
              /\ p \notin Indexed']_vars

\* a handshake has failed after its reservation, and the registry is empty
ReservationReleaseWitness ==
    \E p \in Peer :
        /\ reserved[p]
        /\ pc[p] = "failed"
        /\ ioError[p]
        /\ logging = {}
        /\ loggingCID = {}

\* the handshake of p has ended: with an error, or with p admitted
Decided(p) == pc[p] \in {"failed", "join", "serve"}
\* p and q claim one Name with two CIDs, nobody else claims any of them,
\* no write of their handshakes failed and neither has been closed
NickRace(p, q) ==
    /\ p # q
    /\ Decided(p) /\ Decided(q)
    /\ claimed[p] # NoUser /\ claimed[q] # NoUser
    /\ NameOf(p) = NameOf(q)
    /\ CIDOf(p) # CIDOf(q)
    /\ ~ioError[p] /\ ~ioError[q]
    /\ ~closed[p] /\ ~closed[q]
    /\ \A r \in Peer \ {p, q} :
          claimed[r] = NoUser \/
          (NameOf(r) # NameOf(p) /\ CIDOf(r) \notin {CIDOf(p), CIDOf(q)})
\* p is the one admitted and q the one refused with status 22
WinsOver(p, q) ==
    /\ Admitted(p)
    /\ byName[NameOf(p)] = p
    /\ ~Admitted(q)
    /\ pc[q] = "failed"
    /\ ~reserved[q]
    /\ q \notin Indexed
    /\ Len(wire[q]) > 0
    /\ wire[q][Len(wire[q])] = Msg("STA", CodeNickTaken, q)

\* C6: when two connections with distinct CIDs race for one Name and all
\* their writes succeed, exactly one is admitted; the other is sent status 22
\* and returns an error having entered neither logging nor an index, and
\* byName holds the one entry of the winner.
NickCollision ==
    \A p, q \in Peer : NickRace(p, q) => (WinsOver(p, q) \/ WinsOver(q, p))

NickCollisionWitness ==
    \E p, q \in Peer : NickRace(p, q) /\ WinsOver(p, q)

\* C7: a peer whose INF carries an originator SID other than the SID the hub
\* assigned to the connection makes no reservation and is never admitted.
MalformedBroadcastRejected ==
    \A p \in Peer :
        (b[p] # NoSID /\ b[p] # sid[p]) => (~reserved[p] /\ p \notin Indexed)

\* C8: if a write of the Identity stage fails, the peer is not admitted into
\* any index.
WriteErrorTerminates ==
    \A p \in Peer : ioError[p] => p \notin Indexed

\* q was admitted before p
AdmittedBefore(q, p) ==
    \E i, j \in DOMAIN admitOrder :
        i < j /\ admitOrder[i] = q /\ admitOrder[j] = p
\* p's own INF on its own connection
OwnInfo(p) == Msg("INF", sid[p], p)
\* the handshake of p has written q's INF to p before p's own INF
SentRosterInfo(p, q) ==
    \E i, j \in DOMAIN wire[p] :
        i < j /\ wire[p][i] = Msg("INF", sid[q], p) /\ wire[p][j] = OwnInfo(p)

\* C10: of two admitted peers that have not closed, the one admitted later
\* has been sent the INF of the earlier one before its own INF, and the
\* earlier one is in the join-broadcast snapshot of the later one.
RosterComplete ==
    \A p, q \in Peer :
        (/\ p # q
         /\ pc[p] = "join"
         /\ AdmittedBefore(q, p)
         /\ ~ioError[p] /\ ~ioError[q]
         /\ ~closed[p] /\ ~closed[q])
        => (SentRosterInfo(p, q) /\ q \in list[p])

\* the stage a write on p's connection belongs to: 1 SUP, 2 SID, 3 hub info,
\* 4 success STA, 5 roster INF, 6 own INF, 7 traffic of the served peer (every
\* write of another task is of this stage), 8 the fatal STA of a refusal
Rank(p, m) ==
    CASE m.by # p -> 7
      [] m.type = "SUP" -> 1
      [] m.type = "SID" -> 2
      [] m.type = "HubInfo" -> 3
      [] m.type = "STA" /\ m.arg = CodeSuccess -> 4
      [] m.type = "INF" /\ m.arg # sid[p] -> 5
      [] m.type = "INF" /\ m.arg = sid[p] -> 6
      [] m.type = "STA" /\ m.arg # CodeSuccess -> 8
      [] OTHER -> 7
\* the stages a write of stage r may be followed by
Follows(r) ==
    CASE r = 1 -> {2}
      [] r = 2 -> {3, 8}
      [] r = 3 -> {4}
      [] r = 4 -> {5, 6}
      [] r = 5 -> {5, 6}
      [] r = 6 -> {7}
      [] r = 7 -> {7}
      [] OTHER -> {}
\* the writes on p's connection of a handshake that has sent the own INF
JoinShape(p) ==
    LET w == wire[p] IN
    /\ Len(w) >= 5
    /\ w[1].type = "SUP" /\ w[2] = Msg("SID", sid[p], p)
    /\ w[3].type = "HubInfo" /\ w[4] = Msg("STA", CodeSuccess, p)
    /\ w[Len(w)] = OwnInfo(p)
    /\ \A i \in 5..(Len(w) - 1) :
          /\ w[i].type = "INF" /\ w[i].by = p
          /\ \E q \in Peer \ {p} : w[i].arg = sid[q] /\ Admitted(q)
          /\ \A j \in 5..(Len(w) - 1) : w[j] = w[i] => j = i

\* C9: on a joining peer's connection the writes come in the order hub info,
\* success STA, roster INFs, own INF, and no other task writes to the
\* connection before the peer's own INF has been written.
JoinOrder ==
    \A p \in Peer :
        LET w == wire[p] IN
        /\ Len(w) > 0 => Rank(p, w[1]) = 1
        /\ \A i \in 1..(Len(w) - 1) :
              Rank(p, w[i + 1]) \in Follows(Rank(p, w[i]))
        /\ pc[p] \in {"admit", "insert"} => JoinShape(p)

\* a peer that was sent a roster INF and its own INF, in this order, and
\* after them a packet of the router and the INF of a later peer
JoinOrderWitness ==
    \E p \in Peer :
        LET w == wire[p] IN
        /\ Len(w) >= 8
        /\ w[5].type = "INF" /\ w[5].arg # sid[p] /\ w[5].by = p
        /\ w[6] = OwnInfo(p)
        /\ \E i \in 7..Len(w) : w[i].by = Router
        /\ \E i \in 7..Len(w) : w[i].by \in Peer \ {p}

\* ------------------------------------------------------------------ router
\* the routed packets, by their number
Packets == DOMAIN routed
\* the peers on whose connection the router has written packet k
Written(k) ==
    {q \in Peer : \E i \in DOMAIN wire[q] :
                     wire[q][i].by = Router /\ wire[q][i].arg = k}
\* the peers a running fan-out of packet k has still to write to
Pending(k) == UNION {f.peers : f \in {g \in fan : g.pkt = k}}
\* the fan-out of packet k has returned
FanDone(k) == \A f \in fan : f.pkt # k

\* every peer of the snapshot taken with the Broadcast packet has been written
\* the packet or is still to be written it, and the snapshot has the sender
BroadcastDelivered ==
    \A k \in Packets :
        routed[k].kind = "B" =>
            /\ routed[k].snap \subseteq (Written(k) \cup Pending(k))
            /\ ~removed[routed[k].from] => routed[k].from \in routed[k].snap
\* the step that hands a Broadcast packet to the router, and every step of the
\* router, leave the sender in its serving loop
BroadcastKeepsServing ==
    /\ (Len(routed') > Len(routed) /\ routed'[Len(routed')].kind = "B")
          => pc'[routed'[Len(routed')].from] = "serve"
    /\ (fan' # fan /\ routed' = routed) => pc' = pc

\* C11: a Broadcast packet of an admitted peer is written to every peer of
\* the Peers() snapshot taken when it was read, the sender included; a failed
\* write to one recipient does not stop the writes to the others, and the
\* sender's serving loop goes on.
BroadcastFanOut == []BroadcastDelivered /\ [][BroadcastKeepsServing]_vars

\* a Broadcast packet has gone to both peers of its snapshot, one of them a
\* closed connection, and the sender is still serving
BroadcastFanOutWitness ==
    \E k \in Packets : \E q \in Peer :
        /\ routed[k].kind = "B"
        /\ routed[k].snap = {routed[k].from, q}
        /\ q # routed[k].from
        /\ closed[q]
        /\ FanDone(k)
        /\ Written(k) = routed[k].snap
        /\ pc[routed[k].from] = "serve"

\* the peer whose SID is s, the only peer bySID can map s to
PeerOfSID(s) == {q \in Peer : sid[q] = s}
\* the writes of the router on q's connection that carry packet k
Copies(q, k) ==
    {i \in DOMAIN wire[q] : wire[q][i].by = Router /\ wire[q][i].arg = k}

\* a Direct packet is on the connection of the peer with the target SID only,
\* and there once
DirectOnlyTarget ==
    \A k \in Packets :
        routed[k].kind = "D" =>
            /\ Written(k) \subseteq PeerOfSID(routed[k].targ)
            /\ \A q \in Peer : Cardinality(Copies(q, k)) <= 1
\* the step that hands a Direct packet to the router writes nothing and keeps
\* the sender serving; the step of adcDirect writes to the peer bySID maps the
\* target to and to nobody else, or to nobody if bySID has no such peer
DirectStep ==
    /\ (Len(routed') > Len(routed) /\ routed'[Len(routed')].kind = "D")
          => /\ wire' = wire
             /\ pc'[routed'[Len(routed')].from] = "serve"
    /\ \A f \in fan :
          (f.kind = "D" /\ f \notin fan') =>
              /\ pc' = pc
              /\ IF bySID[f.targ] = NoPeer
                 THEN wire' = wire
                 ELSE wire' = [wire EXCEPT ![bySID[f.targ]] =
                                  Append(@, Msg("D", f.pkt, Router))]

\* C12: a Direct packet of an admitted peer is written to the connection of
\* the peer that bySID maps the target SID to at the lookup and to no other;
\* if bySID has no peer for the target nothing is written; the sender's
\* serving loop goes on.
DirectDelivery == []DirectOnlyTarget /\ [][DirectStep]_vars

\* a Direct packet has reached its target, a peer other than the sender, while
\* both are in the registry
DirectDeliveryWitness ==
    \E k \in Packets : \E q \in Peer :
        /\ routed[k].kind = "D"
        /\ q # routed[k].from
        /\ sid[q] = routed[k].targ
        /\ FanDone(k)
        /\ Written(k) = {q}
        /\ pc[routed[k].from] = "serve"
        /\ HubPeers = {q, routed[k].from}

\* ------------------------------------------------------------------- Close
\* the tasks inside Close of q, past the test of p.closed (line 380)
Closing(q) ==
    {t \in Tasks : Closee(t) = q /\ pc[t] \in {"closename", "closerest",
                                                "leave"}}
\* the leave notifications for q written on r's connection
Quits(r, q) ==
    {i \in DOMAIN wire[r] : wire[r][i].type = "QUI" /\ wire[r][i].arg = sid[q]}

\* one task at most is past the test of p.closed, and nobody is told twice
\* that a peer has left
ClosedOnce ==
    \A q \in Peer :
        /\ Cardinality(Closing(q)) <= 1
        /\ sid[q] # NoSID => \A r \in Peer : Cardinality(Quits(r, q)) <= 1
\* a call that finds the peer closed returns and changes nothing; the
\* connection is closed and the entries are removed in one call only
CloseStep ==
    \A t \in Tasks :
        /\ (pc[t] = "close" /\ closed[Closee(t)] /\ pc'[t] # pc[t]) =>
              /\ pc'[t] = Returned(t)
              /\ regVars' = regVars
              /\ wire' = wire
              /\ notify' = notify
              /\ closed' = closed
        /\ (pc[t] = "close" /\ pc'[t] = "closename") => ~closed[Closee(t)]
        /\ (pc[t] = "closerest" /\ pc'[t] = "leave") =>
              /\ ~removed[Closee(t)]
              /\ bySID[sid[Closee(t)]] = Closee(t)
              /\ byCID[user[Closee(t)].Id] = Closee(t)

\* C13: however many tasks call Close on one admitted peer, one after the
\* other or at once, the connection is closed once, the entries are removed
\* once and the leave is notified once; a later call returns without changing
\* the registry or notifying anybody.
CloseIdempotent == []ClosedOnce /\ [][CloseStep]_vars

\* the serving loop and the administrative task have both called Close on one
\* peer and both calls have returned; the other peer was told once
CloseIdempotentWitness ==
    \E q \in Peer : \E r \in Peer \ {q} :
        /\ pc[q] = "done"
        /\ pc[Admin] = "idle"
        /\ atarget = q
        /\ removed[q]
        /\ Cardinality(Quits(r, q)) = 1

\* the peers that are admitted and that no Close has removed
Present == {q \in Peer : Admitted(q) /\ ~removed[q]}

\* a removed peer is in no index, and so in no list made from bySID
Departed ==
    \A p \in Peer : removed[p] => (p \notin Indexed /\ p \notin HubPeers)
\* the step of Close that removes p hands to the leave broadcast the peers the
\* indices then hold: not p, and every other peer admitted and not removed;
\* a list taken from the registry after that never has p
DepartureStep ==
    /\ \A t \in Tasks :
          (pc[t] = "closerest" /\ pc'[t] = "leave") =>
              /\ notify'[t] = Indexed'
              /\ Closee(t) \notin notify'[t]
              /\ notify'[t] = Present \ {Closee(t)}
    /\ \A p \in Peer :
          removed[p] =>
              /\ \A q \in Peer :
                    /\ roster'[q] # roster[q] => p \notin roster'[q]
                    /\ list'[q] # list[q] => p \notin list'[q]
              /\ \A t \in Tasks : notify'[t] # notify[t] => p \notin notify'[t]

\* C14: once Close has removed an admitted peer it is in none of bySID, byCID
\* and byName and in no Peers() snapshot taken later; the list handed to the
\* leave broadcast is the set of peers in the indices at the removal, without
\* the closed peer and with every other admitted peer.
DepartureComplete == []Departed /\ [][DepartureStep]_vars

\* Close of one peer has returned, the other peer is still in the registry
\* and a connection admitted after the removal was handed a list without it
DepartureCompleteWitness ==
    \E p \in Peer : \E r \in Peer \ {p} :
        /\ removed[p]
        /\ mu[p] = NoTask
        /\ Closing(p) = {}
        /\ Admitted(r)
        /\ AdmittedBefore(p, r)
        /\ pc[r] = "join"
        /\ list[r] = {}
        /\ HubPeers = {r}

\* -------------------------------------------------------------------- Echo
\* the place of the write-back of Echo packet k on its sender's connection
EchoBack(k) ==
    {i \in DOMAIN wire[routed[k].from] :
        wire[routed[k].from][i] = Msg("E", k, routed[k].from)}

\* C15: an Echo packet of an admitted peer is written back to the sender, the
\* target being in bySID or not, before it is forwarded; if the write-back or
\* its flush fails the serving loop returns and the packet is never forwarded.
EchoBackFirst ==
    \A k \in Packets :
        routed[k].kind = "E" =>
            /\ Cardinality(EchoBack(k)) = 1
            /\ \A i \in Copies(routed[k].from, k) :
                  \A j \in EchoBack(k) : j < i
            /\ Written(k) \subseteq PeerOfSID(routed[k].targ)
            /\ ~routed[k].ok =>
                  /\ Written(k) = {}
                  /\ FanDone(k)
                  /\ pc[routed[k].from] # "serve"

\* an Echo packet was written back and then forwarded to its target, another
\* peer, and the sender is still serving
EchoBackFirstWitness ==
    \E k \in Packets : \E q \in Peer :
        /\ routed[k].kind = "E"
        /\ routed[k].ok
        /\ q # routed[k].from
        /\ Written(k) = {q}
        /\ FanDone(k)
        /\ pc[routed[k].from] = "serve"

\* ------------------------------------------------------------------- locks
\* the tasks that hold the registry lock and a per-peer lock together
Nested == {t \in Tasks : hlock = t /\ \E q \in Peer : mu[q] = t}
\* the task takes the lock of a peer in this step: for writing, in Close, or
\* for reading, in Info() called from PeersJoin (an INF written by the task)
TakesPeerLock(t) ==
    \/ \E q \in Peer : mu'[q] = t /\ mu[q] # t
    \/ \E q \in Peer :
          /\ Len(wire'[q]) > Len(wire[q])
          /\ wire'[q][Len(wire'[q])].type = "INF"
          /\ wire'[q][Len(wire'[q])].by = t

\* a task that holds both locks is in Close, holds the lock of the peer it
\* closes and took that one first
LockNesting ==
    \A t \in Nested :
        /\ pc[t] = "closerest"
        /\ \A q \in Peer : mu[q] = t => q = Closee(t)
\* no step takes a per-peer lock while its task holds the registry lock, and
\* the sections under the shared lock take none
LockOrderStep ==
    /\ \A t \in Tasks : TakesPeerLock(t) => (hlock # t /\ hlock' # t)
    /\ hlock' # hlock => mu' = mu
    /\ \A p \in Peer :
          (pc[p] \in {"precheck", "peers"} /\ pc'[p] # pc[p]) => mu' = mu
    /\ (fan' # fan \/ atarget' # atarget) => mu' = mu

\* C16: no task takes a per-peer lock while it holds the registry lock,
\* shared or exclusive; the two are held together only in Close, which takes
\* the per-peer lock first.
LockOrder == []LockNesting /\ [][LockOrderStep]_vars

\* Close holds the lock of its peer and the registry lock while a joining
\* connection waits for the registry
LockOrderWitness ==
    \E t \in Nested : \E p \in Peer \ {Closee(t)} :
        /\ pc[t] = "closerest"
        /\ mu[Closee(t)] = t
        /\ pc[p] = "admit"

\* -------------------------------------------------------------- rejections
\* adcStageIdentity of p returns an error in this step from a place before
\* its inserts into logging and loggingCID (lines 152-216)
RejectedEarly(p) ==
    /\ pc[p] \in {"identity", "precheck", "commit"}
    /\ pc'[p] = "failed"

\* C17: a rejection of the Identity stage that comes before the peer's own
\* reservation (wrong packet, status 27, 21, 22 or 24, from the check under
\* the shared lock or the one under the exclusive lock) leaves logging,
\* loggingCID, bySID, byCID and byName as they were.
RejectionFrame ==
    [][\A p \in Peer :
          RejectedEarly(p) => (regVars' = regVars /\ ~reserved'[p])]_vars

\* a connection was refused for its CID alone while the holder of the CID is
\* still reserved, and the refused Name is neither reserved nor indexed
RejectionFrameWitness ==
    \E p \in Peer : \E q \in Peer \ {p} :
        /\ pc[p] = "failed"
        /\ ~reserved[p]
        /\ Len(wire[p]) > 0
        /\ wire[p][Len(wire[p])] = Msg("STA", CodeCIDTaken, p)
        /\ CIDOf(p) = CIDOf(q)
        /\ NameOf(p) # NameOf(q)
        /\ OnlyReserved(q)
        /\ NameOf(p) \notin logging
        /\ byName[NameOf(p)] = NoPeer

\* ---------------------------------------------------------------- own INF
\* the writes of p's INF on p's own connection
OwnInfos(p) ==
    {i \in DOMAIN wire[p] : wire[p][i].type = "INF" /\ wire[p][i].arg = sid[p]}

\* C18: a joining peer is sent its own INF once: the roster list of line 253
\* and the list taken at the admission (line 273) never have the peer itself,
\* so the join broadcast does not come back to it.
OwnInfoOnce ==
    \A p \in Peer :
        /\ p \notin roster[p]
        /\ p \notin list[p]
        /\ p \notin listTodo[p]
        /\ sid[p] # NoSID => Cardinality(OwnInfos(p)) <= 1
        /\ Admitted(p) => Cardinality(OwnInfos(p)) = 1

\* the join of a peer has been broadcast to the peer admitted before it, and
\* its own connection has its INF once
OwnInfoOnceWitness ==
    \E p \in Peer : \E q \in Peer \ {p} :
        /\ pc[p] = "join"
        /\ list[p] = {q}
        /\ listTodo[p] = {}
        /\ \E i \in DOMAIN wire[q] : wire[q][i] = Msg("INF", sid[p], p)
        /\ Cardinality(OwnInfos(p)) = 1

\* ---------------------------------------------------------------- deadlock
\* every task has returned and no router task is left
Terminal ==
    /\ \A p \in Peer : pc[p] \in {"failed", "done"}
    /\ pc[Admin] = "idle"
    /\ fan = {}
\* no task can take a step: whoever has not returned waits for a lock
Stuck == ~ENABLED Next

\* C19: the registry lock and the per-peer locks never bring the hub to a
\* state in which tasks wait for each other's locks for ever: as long as a
\* task has not returned, some task can take a step (wire writes return).
DeadlockFree == Stuck => Terminal

\* the administrative Close holds the lock of a peer and waits for the
\* registry lock, which a joining connection holds, while the peer's own
\* deferred Close waits for the lock of the peer
DeadlockFreeWitness ==
    \E p \in Peer :
        /\ pc[Admin] = "closename"
        /\ mu[atarget] = Admin
        /\ pc[atarget] = "close"
        /\ p # atarget
        /\ hlock = p
        /\ pc[p] = "insert"

\* ------------------------------------------------------------ stale roster
\* the handshake of n has written x's INF to n in its roster catch-up
RosterHas(n, x) ==
    \E i \in DOMAIN wire[n] : wire[n][i] = Msg("INF", sid[x], n)

\* C20: a peer that was sent another peer's INF in its roster catch-up, that
\* is then admitted with no failed write and stays connected, has been sent
\* the QUI of that other peer once the Close that removed it has returned.
RosterNotStale ==
    \A n \in Peer : \A x \in Peer \ {n} :
        (/\ sid[x] # NoSID
         /\ RosterHas(n, x)
         /\ removed[x]
         /\ Closing(x) = {}
         /\ pc[n] = "join"
         /\ ~ioError[n]
         /\ ~closed[n])
        => Quits(n, x) # {}

====
